---- MODULE Spec2Model ----
(***************************************************************************)
(* Preprocessing of a translation unit that may include the bridging       *)
(* header Ghostty-header.h.  The header's four directives (#ifndef,        *)
(* #define, #import, #endif) are interpreted one at a time by a            *)
(* preprocessor with an include stack, a macro table, the once-only        *)
(* bookkeeping of #import, and a table of declared types.  The two         *)
(* vendored headers the comments of the bridging header talk about         *)
(* (ghostty.h and ghostty/vt.h) are not part of the source; their contents *)
(* are modelled from the documentation.                                    *)
(***************************************************************************)
EXTENDS Naturals, Integers, Sequences, FiniteSets, TLC

\* Longest translation unit (number of top-level #include directives).
MaxTU == 3

----------------------------------------------------------------------------
\* Paths and files

GH == "Ghostty-header.h"

UMB == "ghostty/Vendor/include/ghostty.h"

VT == "ghostty/vt.h"

\* The location the header's comment documents as the correct one.
DocumentedPath == "ghostty/Vendor/include/ghostty.h"

NotFound == "<not found>"

Guard == "Ghostty_header_h"

DuplicateDefinition == "duplicate definition"

FileNotFound == "file not found"

\* The files present in the build tree.
Files == {GH, UMB, VT}

\* Quoted-path lookup: a path names a file of the build tree or nothing.
Resolve(path) == IF path \in Files THEN path ELSE NotFound

Dir(op, arg) == [op |-> op, arg |-> arg]

----------------------------------------------------------------------------
\* Mutants of the bridging header (plausible slips in its text)

\* the guard macro is tested but never defined
Header_NoDefine ==
    << Dir("ifndef", Guard),
       Dir("import", "ghostty/Vendor/include/ghostty.h"),
       Dir("endif", "") >>

\* the guard macro is defined only after the import
Header_DefineAfterImport ==
    << Dir("ifndef", Guard),
       Dir("import", "ghostty/Vendor/include/ghostty.h"),
       Dir("define", Guard),
       Dir("endif", "") >>

\* the import names the lower-level header instead of the umbrella
Header_ImportsVt ==
    << Dir("ifndef", Guard),
       Dir("define", Guard),
       Dir("import", "ghostty/vt.h"),
       Dir("endif", "") >>

\* the import names the umbrella and the lower-level header
Header_ImportsBoth ==
    << Dir("ifndef", Guard),
       Dir("define", Guard),
       Dir("import", "ghostty/Vendor/include/ghostty.h"),
       Dir("import", "ghostty/vt.h"),
       Dir("endif", "") >>

\* the import still names the location used before the dependency moved
Header_OldPath ==
    << Dir("ifndef", Guard),
       Dir("define", Guard),
       Dir("import", "ghostty.h"),
       Dir("endif", "") >>

\* the header declares a type of its own
Header_DeclaresType ==
    << Dir("ifndef", Guard),
       Dir("define", Guard),
       Dir("import", "ghostty/Vendor/include/ghostty.h"),
       Dir("decl", "bridge_only"),
       Dir("endif", "") >>

\* the lower-level header is named in the branch taken on re-inclusion
Header_VtOutsideGuard ==
    << Dir("ifndef", Guard),
       Dir("define", Guard),
       Dir("import", "ghostty/Vendor/include/ghostty.h"),
       Dir("endif", ""),
       Dir("import", "ghostty/vt.h") >>

----------------------------------------------------------------------------
\* File contents

\* Ghostty-header.h, directive by directive.
Ghostty_header_h ==
    << Dir("ifndef", "Ghostty_header_h"),
       Dir("define", "Ghostty_header_h"),
       Dir("import", "ghostty/Vendor/include/ghostty.h"),
       Dir("endif", "") >>

VARIABLES
    tu,         \* the translation unit: the paths of its #include directives
    reincl,     \* build configuration: the umbrella header includes the bridging header back
    pos,        \* index of the next directive of the translation unit
    stack,      \* include stack, innermost file last
    macros,     \* macros defined so far
    decls,      \* types and enums declared so far
    errors,     \* diagnostics issued so far
    entered,    \* per file, how often it has been entered
    onceOnly,   \* files marked once-only by #import
    bodyCount,  \* how often the import of the bridging header was processed unskipped
    scanned     \* the include/import directives read in the bridging header

vars == << tu, reincl, pos, stack, macros, decls, errors, entered, onceOnly,
           bodyCount, scanned >>

\* The umbrella header: guarded, declares the shared enums and its own types.
ghostty_h ==
    << Dir("ifndef", "GHOSTTY_H"), Dir("define", "GHOSTTY_H") >>
    \o (IF reincl THEN << Dir("include", GH) >> ELSE << >>)
    \o << Dir("decl", "shared_enum"), Dir("decl", "umbrella_only"),
          Dir("endif", "") >>

\* The lower-level header: guarded, declares the same enums again.
vt_h ==
    << Dir("ifndef", "GHOSTTY_VT_H"), Dir("define", "GHOSTTY_VT_H"),
       Dir("decl", "shared_enum"), Dir("decl", "vt_only"),
       Dir("endif", "") >>

Content(f) ==
    CASE f = GH -> Ghostty_header_h
      [] f = UMB -> ghostty_h
      [] f = VT -> vt_h

----------------------------------------------------------------------------
\* Helpers

RECURSIVE SeqsUpTo(_, _)
SeqsUpTo(S, n) ==
    IF n = 0 THEN { << >> }
    ELSE LET shorter == SeqsUpTo(S, n - 1)
         IN  shorter \cup { Append(s, x) : s \in shorter, x \in S }

Range(s) == { s[i] : i \in 1..Len(s) }

Top == stack[Len(stack)]

AtEnd == Top.line > Len(Content(Top.file))

Cur == Content(Top.file)[Top.line]

\* the stack with the current frame moved to its next line
Advanced == [stack EXCEPT ![Len(stack)].line = @ + 1]

AdvancedSkip(s) == [stack EXCEPT ![Len(stack)].line = @ + 1, ![Len(stack)].skip = s]

Frame(f) == [file |-> f, line |-> 1, skip |-> FALSE, nth |-> entered[f] + 1]

Done == stack = << >> /\ pos > Len(tu)

\* Opening a file named by #include (isImport = FALSE) or #import.
EnterFile(path, isImport, rest, nextPos) ==
    LET f == Resolve(path) IN
    IF f = NotFound
    THEN /\ errors' = errors \cup {FileNotFound}
         /\ stack' = << >>
         /\ pos' = Len(tu) + 1
         /\ UNCHANGED << entered, onceOnly >>
    ELSE /\ onceOnly' = IF isImport THEN onceOnly \cup {f} ELSE onceOnly
         /\ IF f \in onceOnly \/ (isImport /\ entered[f] > 0)
            THEN stack' = rest /\ UNCHANGED entered
            ELSE /\ stack' = Append(rest, Frame(f))
                 /\ entered' = [entered EXCEPT ![f] = @ + 1]
         /\ pos' = nextPos
         /\ UNCHANGED errors

Scan == IF Top.file = GH
        THEN scanned \cup {[nth |-> Top.nth, line |-> Top.line, path |-> Cur.arg]}
        ELSE scanned

----------------------------------------------------------------------------
\* Initial state and actions

Init ==
    /\ tu \in (SeqsUpTo({GH, UMB, VT}, MaxTU) \ { << >> })
    /\ reincl \in BOOLEAN
    /\ pos = 1
    /\ stack = << >>
    /\ macros = {}
    /\ decls = {}
    /\ errors = {}
    /\ entered = [f \in Files |-> 0]
    /\ onceOnly = {}
    /\ bodyCount = 0
    /\ scanned = {}

\* a top-level #include of the translation unit
TUInclude ==
    /\ stack = << >>
    /\ pos <= Len(tu)
    /\ EnterFile(tu[pos], FALSE, << >>, pos + 1)
    /\ UNCHANGED << tu, reincl, macros, decls, bodyCount, scanned >>

\* #ifndef M: the lines up to #endif are skipped when M is defined
Ifndef ==
    /\ stack # << >> /\ ~AtEnd /\ Cur.op = "ifndef"
    /\ stack' = AdvancedSkip(Top.skip \/ Cur.arg \in macros)
    /\ UNCHANGED << tu, reincl, pos, macros, decls, errors, entered, onceOnly,
                    bodyCount, scanned >>

\* #define M
Define ==
    /\ stack # << >> /\ ~AtEnd /\ Cur.op = "define"
    /\ macros' = IF Top.skip THEN macros ELSE macros \cup {Cur.arg}
    /\ stack' = Advanced
    /\ UNCHANGED << tu, reincl, pos, decls, errors, entered, onceOnly,
                    bodyCount, scanned >>

\* #import "path"
Import ==
    /\ stack # << >> /\ ~AtEnd /\ Cur.op = "import"
    /\ scanned' = Scan
    /\ IF Top.skip
       THEN /\ stack' = Advanced
            /\ UNCHANGED << pos, errors, entered, onceOnly, bodyCount >>
       ELSE /\ EnterFile(Cur.arg, TRUE, Advanced, pos)
            /\ bodyCount' = IF Top.file = GH THEN bodyCount + 1 ELSE bodyCount
    /\ UNCHANGED << tu, reincl, macros, decls >>

\* #include "path"
Include ==
    /\ stack # << >> /\ ~AtEnd /\ Cur.op = "include"
    /\ scanned' = Scan
    /\ IF Top.skip
       THEN /\ stack' = Advanced
            /\ UNCHANGED << pos, errors, entered, onceOnly >>
       ELSE EnterFile(Cur.arg, FALSE, Advanced, pos)
    /\ UNCHANGED << tu, reincl, macros, decls, bodyCount >>

\* a type or enum definition
Decl ==
    /\ stack # << >> /\ ~AtEnd /\ Cur.op = "decl"
    /\ IF Top.skip
       THEN UNCHANGED << decls, errors >>
       ELSE /\ decls' = decls \cup {Cur.arg}
            /\ errors' = IF Cur.arg \in decls
                         THEN errors \cup {DuplicateDefinition}
                         ELSE errors
    /\ stack' = Advanced
    /\ UNCHANGED << tu, reincl, pos, macros, entered, onceOnly, bodyCount, scanned >>

\* #endif
Endif ==
    /\ stack # << >> /\ ~AtEnd /\ Cur.op = "endif"
    /\ stack' = AdvancedSkip(FALSE)
    /\ UNCHANGED << tu, reincl, pos, macros, decls, errors, entered, onceOnly,
                    bodyCount, scanned >>

\* the end of the current file: back to the including file
EndOfFile ==
    /\ stack # << >> /\ AtEnd
    /\ stack' = SubSeq(stack, 1, Len(stack) - 1)
    /\ UNCHANGED << tu, reincl, pos, macros, decls, errors, entered, onceOnly,
                    bodyCount, scanned >>

Next ==
    \/ TUInclude
    \/ Ifndef
    \/ Define
    \/ Import
    \/ Include
    \/ Decl
    \/ Endif
    \/ EndOfFile

Spec == Init /\ [][Next]_vars

\* The preprocessor keeps reading while there is input.
FairSpec == Spec /\ WF_vars(Next)

----------------------------------------------------------------------------
\* Properties

Included(f) == entered[f] > 0

UsesBridge == GH \in Range(tu)

\* C1 (as stated): in every translation unit that includes Ghostty-header.h,
\* exactly one of ghostty.h and ghostty/vt.h has been included when
\* preprocessing ends, never both and never neither.
C1_ExactlyOneAlways ==
    (Done /\ UsesBridge) => (Included(UMB) /\ ~Included(VT)) \/ (~Included(UMB) /\ Included(VT))

\* C1 (amended): in every translation unit that includes Ghostty-header.h,
\* ghostty.h has been included when preprocessing ends, and ghostty/vt.h has
\* been included exactly when the translation unit itself names it; so exactly
\* one of the two is included precisely when the unit does not include
\* ghostty/vt.h on its own.
C1_UmbrellaAlwaysVtOnlyIfNamed ==
    (Done /\ UsesBridge) =>
        /\ Included(UMB)
        /\ Included(VT) <=> VT \in Range(tu)

C1_Witness ==
    /\ Done /\ UsesBridge /\ VT \notin Range(tu)
    /\ Included(UMB) /\ ~Included(VT)

\* C2: a translation unit that includes Ghostty-header.h and ghostty/vt.h ends
\* with a duplicate-definition error, one that includes only Ghostty-header.h
\* ends without any error, and no other kind of error is ever issued.
C2_DuplicateIsTheOnlyFailure ==
    /\ errors \subseteq {DuplicateDefinition}
    /\ (Done /\ UsesBridge /\ VT \in Range(tu)) => DuplicateDefinition \in errors
    /\ (Done /\ Range(tu) = {GH}) => errors = {}

C2_Witness ==
    /\ Done /\ UsesBridge /\ VT \in Range(tu)
    /\ errors = {DuplicateDefinition}

\* a frame of Ghostty-header.h other than its first inclusion is being read
RereadingBridge == stack # << >> /\ Top.file = GH /\ Top.nth >= 2

\* C3: the import of Ghostty-header.h is processed at most once, and no step
\* taken while a second or later inclusion of the header is being read
\* changes the macros or the declarations or processes the import again.
C3_Idempotent ==
    /\ [](bodyCount <= 1)
    /\ [][RereadingBridge =>
            /\ macros' = macros
            /\ decls' = decls
            /\ bodyCount' = bodyCount]_vars

C3_Witness ==
    /\ Done /\ entered[GH] >= 2 /\ bodyCount = 1
    /\ Guard \in macros

\* C4: every include path read in Ghostty-header.h is the documented vendored
\* location, it resolves to the vendored umbrella header, and once the import
\* has been processed that header has been entered and no file was missing.
C4_ImportResolvesToVendored ==
    /\ \A s \in scanned : s.path = DocumentedPath /\ Resolve(s.path) = UMB
    /\ bodyCount >= 1 => Included(UMB)
    /\ FileNotFound \notin errors

C4_Witness ==
    /\ bodyCount = 1
    /\ stack # << >> /\ Top.file = UMB /\ Top.nth = 1
    /\ Len(stack) >= 2 /\ stack[Len(stack) - 1].file = GH

\* C5: a step taken while Ghostty-header.h is the file being read declares
\* nothing, issues nothing, removes no macro, defines no macro but the guard,
\* leaves the translation unit's position alone and opens no file but the
\* umbrella header.
C5_OnlyGuardAndImport ==
    [][(stack # << >> /\ Top.file = GH) =>
            /\ decls' = decls
            /\ errors' = errors
            /\ macros \subseteq macros'
            /\ macros' \ macros \subseteq {Guard}
            /\ pos' = pos
            /\ Len(stack') <= Len(stack) + 1
            /\ Len(stack') > Len(stack) => stack'[Len(stack')].file = UMB]_vars

C5_Witness ==
    /\ stack # << >> /\ Top.file = GH /\ AtEnd /\ Top.nth = 1
    /\ Guard \in macros
    /\ {"vt_only", "umbrella_only"} \subseteq decls

\* inclusions of Ghostty-header.h that have been read to the end
CompletedPasses ==
    { n \in 1..entered[GH] :
        \A i \in 1..Len(stack) : ~(stack[i].file = GH /\ stack[i].nth = n) }

\* C6: the include and import directives read in Ghostty-header.h, in taken
\* and in skipped branches alike, name only the vendored ghostty.h, never
\* ghostty/vt.h, and each complete reading of the header meets exactly one.
C6_SingleImportOfUmbrella ==
    /\ \A s \in scanned : s.path = UMB /\ s.path # VT
    /\ \A n \in CompletedPasses : Cardinality({ s \in scanned : s.nth = n }) = 1

C6_Witness ==
    /\ Done
    /\ Cardinality(scanned) >= 2
    /\ \E s \in scanned : s.nth = 2

BridgeFrames == { i \in 1..Len(stack) : stack[i].file = GH }

\* a frame of Ghostty-header.h opened while another one is still open
Nested(i) == i \in BridgeFrames /\ \E j \in BridgeFrames : j < i

\* C7: whenever the import of Ghostty-header.h is about to be processed the
\* guard macro is already defined; an inclusion of the header nested inside
\* itself is skipped from its #ifndef to its #endif; the header is never open
\* more than twice at once; and preprocessing ends.
C7_GuardStopsRecursion ==
    /\ [](/\ (stack # << >> /\ Top.file = GH /\ ~AtEnd /\ Cur.op = "import" /\ ~Top.skip)
              => Guard \in macros
          /\ \A i \in 1..Len(stack) :
                (Nested(i) /\ stack[i].line > 1 /\ stack[i].line <= Len(Ghostty_header_h))
                    => stack[i].skip
          /\ Cardinality(BridgeFrames) <= 2)
    /\ <>Done

C7_Witness ==
    /\ stack # << >> /\ Nested(Len(stack))
    /\ Top.skip /\ Cur.op = "import"
    /\ bodyCount = 1

====
